---- MODULE Spec2Model ----
(***************************************************************************)
(* Voice-search front end of the HAUS real-estate application.             *)
(*                                                                         *)
(* The components are React function components.  A handler created in a  *)
(* render closes over that render's values of the state variables; a      *)
(* callback installed once (speech-recognition handlers, promise          *)
(* continuations, timers) therefore keeps reading the values of the       *)
(* render that created it, while useRef cells and functional state        *)
(* updates (setX(prev => ...)) see the live value.  The model keeps the   *)
(* two apart: every recognition object, request and timer carries the     *)
(* snapshot ("cl") of the render it was created in.                       *)
(*                                                                         *)
(* Text is a sequence of one-character strings so that trim, lower-casing,*)
(* substring and includes are computed, not assumed.                      *)
(***************************************************************************)
EXTENDS Integers, Sequences, FiniteSets, TLC

(***************************************************************************)
(* Bounds of the model.                                                    *)
(***************************************************************************)
MaxMounts == 1
MaxRecs == 2
MaxInputs == 4
MaxCloseClicks == 1
MaxUvResults == 2
MaxRtInputs == 2

(***************************************************************************)
(* Text helpers (JavaScript String methods).                               *)
(***************************************************************************)
Undef == "undefined"
Null == "null"

LowerChar(c) ==
  CASE c = "O" -> "o"
    [] c = "K" -> "k"
    [] c = "S" -> "s"
    [] c = "L" -> "l"
    [] c = "P" -> "p"
    [] OTHER -> c

toLowerCase(s) == [i \in 1..Len(s) |-> LowerChar(s[i])]

RECURSIVE trimStart(_)
trimStart(s) == IF s # <<>> /\ Head(s) = " " THEN trimStart(Tail(s)) ELSE s

RECURSIVE trimEnd(_)
trimEnd(s) ==
  IF s # <<>> /\ s[Len(s)] = " " THEN trimEnd(SubSeq(s, 1, Len(s) - 1)) ELSE s

trim(s) == trimEnd(trimStart(s))

substring(s, n) == SubSeq(s, n + 1, Len(s))

includes(s, sub) ==
  \E i \in 1..(Len(s) + 1) :
    i + Len(sub) - 1 <= Len(s) /\ SubSeq(s, i, i + Len(sub) - 1) = sub


(***************************************************************************)
(* Utterances the speech engine may finalize (VoiceSearch).                *)
(***************************************************************************)
uPool == <<"a", " ", "p", "o", "o", "l">>
uOk == <<" ", "O", "k">>
uHm == <<"h", "m">>
uFindPool == <<"f", "i", "n", "d", " ", "p", "o", "o", "l">>
VSUtterances == {uPool, uOk, uHm, uFindPool}

(* The alternatives of the regular expression of processTranscript. *)
CommandPhrases ==
  { <<"s","e","a","r","c","h">>,
    <<"l","e","t","'","s"," ","g","o">>,
    <<"l","e","t","s"," ","g","o">>,
    <<"f","i","n","d">>,
    <<"o","k">>,
    <<"f","i","n","d"," ","m","y"," ","h","o","u","s","e">>,
    <<"f","i","n","d"," ","m","y"," ","h","a","u","s">> }

(***************************************************************************)
(* Search parameters.  Of the scalar keys of initialSearchParams the model *)
(* keeps location, priceMin and priceMax; of AMENITY_CONFIG the keys Pool  *)
(* and Gym; of PERMANENT_TAG_CONFIG the key new.  An absent   *)
(* amenities or tags list reads as the empty list (|| []).                 *)
(***************************************************************************)
ScalarKeys == {"location", "priceMin", "priceMax"}
ParamKeys == ScalarKeys \cup {"amenities", "tags"}
AMENITY_CONFIG == {"Pool", "Gym"}
PERMANENT_TAG_CONFIG == {"new"}
PriceRanges == {<<"500k", "900k">>}

initialSearchParams ==
  [k \in ParamKeys |-> IF k \in {"amenities", "tags"} THEN {} ELSE Undef]

(* What /api/voice/process may answer with status 200: for every key <<>> *)
(* when responseData has no such key, else <<v>> with v the value of       *)
(* responseData[key].value (Null for null).  "error" is a key that is not  *)
(* in initialSearchParams.                                                 *)
Reply(location, amenities, tags, error) ==
  [location |-> location, priceMin |-> <<>>, priceMax |-> <<>>,
   amenities |-> amenities, tags |-> tags, error |-> error]
Replies ==
  { Reply(<<>>, <<>>, <<>>, <<>>),
    Reply(<<>>, <<>>, <<>>, <<"message">>),
    Reply(<<Null>>, <<{"Sauna"}>>, <<{"vip"}>>, <<>>),
    Reply(<<"Sydney">>, <<>>, <<>>, <<>>),
    Reply(<<"Perth">>, <<{"Pool"}>>, <<>>, <<>>),
    Reply(<<>>, <<{"Gym", "Sauna"}>>, <<>>, <<>>),
    Reply(<<>>, <<>>, <<{"new", "vip"}>>, <<>>) }

VARIABLES
  showVoiceSearch,      \* HeroWithVoiceSearch: the modal is open
  searchResults,        \* HeroWithVoiceSearch: <<>> or <<params>> the list was generated from
  searchParams,         \* HeroWithVoiceSearch: passed to VoiceSearch as a prop
  inst,                 \* number of VoiceSearch instances mounted so far
  status,               \* VoiceSearch state of the mounted instance
  isDemoMode,           \* VoiceSearch state of the mounted instance
  recognitionRef,       \* per instance: 0 or the recognition object
  lastFinalTranscript,  \* per instance: the ref of the same name
  recs,                 \* the SpeechRecognition objects created so far
  recCount,
  fetches,              \* requests to /api/voice/process awaiting their answer
  timers,               \* pending setTimeout callbacks of handleSearch
  seq,                  \* number of requests and timers created
  resultsCalls,         \* number of onResults calls
  srSupported,          \* window.SpeechRecognition exists
  inputs,               \* number of user and speech inputs so far
  sessRec, sessAdded,   \* history: what merged chunks of the current listening session added
  lastOp                \* history: the handler that ran last

vsVars == <<showVoiceSearch, searchResults, searchParams, inst, status, isDemoMode,
            recognitionRef, lastFinalTranscript, recs, recCount, fetches, timers,
            seq, resultsCalls, srSupported, inputs, sessRec, sessAdded>>

NoRec == [phase |-> "none", onend |-> FALSE, inst |-> 0,
          cl |-> [status |-> "none", isDemoMode |-> FALSE, searchParams |-> initialSearchParams],
          final |-> <<>>]
NoAdded == [amenities |-> {}, tags |-> {}, scalars |-> [k \in ScalarKeys |-> <<>>],
            chunk |-> [k \in ScalarKeys |-> 0]]

VSInit ==
  /\ showVoiceSearch = FALSE
  /\ searchResults = <<>>
  /\ searchParams = initialSearchParams
  /\ inst = 0
  /\ status = "unmounted"
  /\ isDemoMode = FALSE
  /\ recognitionRef = [i \in 1..MaxMounts |-> 0]
  /\ lastFinalTranscript = [i \in 1..MaxMounts |-> <<>>]
  /\ recs = [r \in 1..MaxRecs |-> NoRec]
  /\ recCount = 0
  /\ fetches = {}
  /\ timers = {}
  /\ seq = 0
  /\ resultsCalls = 0
  /\ srSupported \in BOOLEAN
  /\ inputs = 0
  /\ sessRec = 0
  /\ sessAdded = NoAdded

(* The instance i is the one currently rendered: its state setters act.    *)
Live(i) == showVoiceSearch /\ i = inst

(* recognition.stop() on object r of the table rs. *)
stop(rs, r) ==
  IF r # 0 /\ rs[r].phase = "active" THEN [rs EXCEPT ![r].phase = "stopping"] ELSE rs

(* useEffect cleanup of VoiceSearch. *)
Unmount(rs) == IF inst # 0 /\ showVoiceSearch THEN stop(rs, recognitionRef[inst]) ELSE rs

resetParams(prev) == [initialSearchParams EXCEPT !["tags"] = prev["tags"]]


(***************************************************************************)
(* UniversalVoiceSearch with EnhancedVoiceSearch and InstantVoiceSearch.   *)
(* Only one of the two components is rendered, so they share the variables *)
(* (both declare state, finalTranscript, isListening, recognitionRef and   *)
(* silenceTimeoutRef).                                                     *)
(***************************************************************************)
VARIABLES
  showModeSelector, selectedMode,  \* UniversalVoiceSearch
  uvMounted,            \* the selected component is rendered
  uvState,              \* state
  finalTranscript,      \* finalTranscript
  liveTranscript,       \* InstantVoiceSearch: liveTranscript
  isListening,
  showConfirm,          \* EnhancedVoiceSearch: showConfirm
  uvRec,                \* recognitionRef.current and the render its handlers were created in
  initTimer,            \* the 500 ms timer of the mount effect is pending
  silenceTimeout,       \* silenceTimeoutRef: pending timer and the isListening its callback reads
  uvFetches,            \* requests to /api/voice/process awaiting their answer
  uvTimers,             \* pending 800 ms timers that will call onResults
  uvSeq,
  uvResults,            \* number of final speech results delivered so far
  onCloseCalls, onResultsCalls

uvVars == <<showModeSelector, selectedMode, uvMounted, uvState, finalTranscript,
            liveTranscript, isListening, showConfirm, uvRec, initTimer, silenceTimeout,
            uvFetches, uvTimers, uvSeq, uvResults, onCloseCalls, onResultsCalls>>

(* EnhancedRealtimeVoiceSearch with its services, and the browser's storage. *)
VARIABLES
  localStorage, rtLife, rtState, apiKey, showSettings, serviceRef, services, outbox,
  rtInputs, rtTimers, rtResultsCalls

rtVars ==
  <<localStorage, rtLife, rtState, apiKey, showSettings, serviceRef, services, outbox,
    rtInputs, rtTimers, rtResultsCalls>>

(* The route POST /api/voice/process and the environment of its process. *)
VARIABLES env, apiPc, apiBody, apiOutcome, apiResponse

apiVars == <<env, apiPc, apiBody, apiOutcome, apiResponse>>

nonVS == <<uvVars, rtVars, apiVars>>
nonUV == <<vsVars, rtVars, apiVars>>
nonRT == <<vsVars, uvVars, apiVars>>
nonAPI == <<vsVars, uvVars, rtVars>>


(***************************************************************************)
(* HeroWithVoiceSearch.                                                    *)
(***************************************************************************)
handleStartSearch ==
  /\ ~showVoiceSearch
  /\ inst < MaxMounts
  /\ inputs < MaxInputs
  /\ inputs' = inputs + 1
  /\ showVoiceSearch' = TRUE
  /\ inst' = inst + 1
  /\ status' = "demo"
  /\ isDemoMode' = TRUE
  /\ lastOp' = "handleStartSearch"
  /\ UNCHANGED nonVS
  /\ UNCHANGED <<searchResults, searchParams, recognitionRef, lastFinalTranscript, recs,
                 recCount, fetches, timers, seq, resultsCalls, srSupported, sessRec, sessAdded>>

handleCloseSearch ==
  /\ showVoiceSearch \/ searchResults # <<>>
  /\ showVoiceSearch' = FALSE
  /\ searchResults' = <<>>
  /\ searchParams' = initialSearchParams
  /\ recs' = Unmount(recs)
  /\ status' = "unmounted"
  /\ isDemoMode' = FALSE
  /\ sessRec' = 0
  /\ sessAdded' = NoAdded
  /\ lastOp' = "handleCloseSearch"
  /\ UNCHANGED nonVS
  /\ UNCHANGED <<inst, recognitionRef, lastFinalTranscript, recCount, fetches, timers,
                 seq, resultsCalls, srSupported, inputs>>

(* The timer of handleSearch fires: onResults(mockResults, searchParams),  *)
(* which is handleResults of the hero.                                     *)
handleResults(t) ==
  /\ t \in timers
  /\ timers' = timers \ {t}
  /\ searchResults' = <<t.params>>
  /\ showVoiceSearch' = FALSE
  /\ recs' = Unmount(recs)
  /\ status' = "unmounted"
  /\ isDemoMode' = FALSE
  /\ resultsCalls' = resultsCalls + 1
  /\ lastOp' = "handleResults"
  /\ UNCHANGED nonVS
  /\ UNCHANGED <<searchParams, inst, recognitionRef, lastFinalTranscript, recCount,
                 fetches, seq, srSupported, inputs, sessRec, sessAdded>>


(***************************************************************************)
(* VoiceSearch.                                                            *)
(***************************************************************************)
(* handleSearch as created in a render whose searchParams is sp, of        *)
(* instance i; rs is the table of recognition objects to act on.           *)
handleSearch(sp, i, rs) ==
  /\ status' = IF Live(i) THEN "done" ELSE status
  /\ recs' = stop(rs, recognitionRef[i])
  /\ timers' = timers \cup {[id |-> seq + 1, inst |-> i, params |-> sp]}
  /\ seq' = seq + 1

handleStartListening ==
  /\ showVoiceSearch
  /\ status \in {"demo", "idle"}
  /\ recCount < MaxRecs
  /\ inputs < MaxInputs
  /\ inputs' = inputs + 1
  /\ isDemoMode' = FALSE
  /\ searchParams' = IF ~isDemoMode /\ status \in {"done", "idle", "confirming"}
                     THEN resetParams(searchParams) ELSE searchParams
  /\ IF srSupported /\ recognitionRef[inst] = 0
     THEN /\ lastFinalTranscript' = [lastFinalTranscript EXCEPT ![inst] = <<>>]
          /\ status' = "listening"
          /\ recCount' = recCount + 1
          /\ recs' = [recs EXCEPT ![recCount + 1] =
                        [phase |-> "active", onend |-> TRUE, inst |-> inst,
                         cl |-> [status |-> status, isDemoMode |-> isDemoMode,
                                 searchParams |-> searchParams],
                         final |-> <<>>]]
          /\ recognitionRef' = [recognitionRef EXCEPT ![inst] = recCount + 1]
          /\ sessRec' = recCount + 1
          /\ sessAdded' = NoAdded
     ELSE UNCHANGED <<lastFinalTranscript, status, recCount, recs, recognitionRef,
                      sessRec, sessAdded>>
  /\ lastOp' = "handleStartListening"
  /\ UNCHANGED nonVS
  /\ UNCHANGED <<showVoiceSearch, searchResults, inst, fetches, timers, seq, resultsCalls,
                 srSupported>>

handleStopListening ==
  /\ showVoiceSearch
  /\ status = "listening"
  /\ recs' = stop(recs, recognitionRef[inst])
  /\ lastOp' = "handleStopListening"
  /\ UNCHANGED nonVS
  /\ UNCHANGED <<showVoiceSearch, searchResults, searchParams, inst, status, isDemoMode,
                 recognitionRef, lastFinalTranscript, recCount, fetches, timers, seq,
                 resultsCalls, srSupported, inputs, sessRec, sessAdded>>

handleCancel ==
  /\ showVoiceSearch
  /\ status = "listening"
  /\ status' = "idle"
  /\ recs' = IF recognitionRef[inst] # 0
             THEN stop([recs EXCEPT ![recognitionRef[inst]].onend = FALSE], recognitionRef[inst])
             ELSE recs
  /\ recognitionRef' = [recognitionRef EXCEPT ![inst] = 0]
  /\ isDemoMode' = FALSE
  /\ lastFinalTranscript' = [lastFinalTranscript EXCEPT ![inst] = <<>>]
  /\ searchParams' = resetParams(searchParams)
  /\ sessRec' = 0
  /\ sessAdded' = NoAdded
  /\ lastOp' = "handleCancel"
  /\ UNCHANGED nonVS
  /\ UNCHANGED <<showVoiceSearch, searchResults, inst, recCount, fetches, timers, seq,
                 resultsCalls, srSupported, inputs>>

(* The main button in status 'confirming' (getButtonAction). *)
SearchButton ==
  /\ showVoiceSearch
  /\ status = "confirming"
  /\ handleSearch(searchParams, inst, recs)
  /\ lastOp' = "handleSearch"
  /\ UNCHANGED nonVS
  /\ UNCHANGED <<showVoiceSearch, searchResults, searchParams, inst, isDemoMode,
                 recognitionRef, lastFinalTranscript, recCount, fetches, resultsCalls,
                 srSupported, inputs, sessRec, sessAdded>>

handleToggleTag(tagKey) ==
  /\ showVoiceSearch
  /\ inputs < MaxInputs
  /\ inputs' = inputs + 1
  /\ isDemoMode' = FALSE
  /\ searchParams' = [searchParams EXCEPT !["tags"] =
                        IF tagKey \in @ THEN @ \ {tagKey} ELSE @ \cup {tagKey}]
  /\ sessAdded' = [sessAdded EXCEPT !.tags = @ \ {tagKey}]
  /\ lastOp' = "handleToggleTag"
  /\ UNCHANGED nonVS
  /\ UNCHANGED <<showVoiceSearch, searchResults, inst, status, recognitionRef,
                 lastFinalTranscript, recs, recCount, fetches, timers, seq, resultsCalls,
                 srSupported, sessRec>>

handlePriceChange(newRange) ==
  /\ showVoiceSearch
  /\ inputs < MaxInputs
  /\ inputs' = inputs + 1
  /\ isDemoMode' = FALSE
  /\ searchParams' = [searchParams EXCEPT !["priceMin"] = newRange[1],
                                          !["priceMax"] = newRange[2]]
  /\ sessAdded' = [sessAdded EXCEPT !.scalars["priceMin"] = <<>>,
                                    !.scalars["priceMax"] = <<>>,
                                    !.chunk["priceMin"] = 0,
                                    !.chunk["priceMax"] = 0]
  /\ lastOp' = "handlePriceChange"
  /\ UNCHANGED nonVS
  /\ UNCHANGED <<showVoiceSearch, searchResults, inst, status, recognitionRef,
                 lastFinalTranscript, recs, recCount, fetches, timers, seq, resultsCalls,
                 srSupported, sessRec>>


isCommand_contains(text) ==
  \E phrase \in CommandPhrases : includes(toLowerCase(trim(text)), phrase)

(* text.trim().toLowerCase().match(/^(...)$/) *)
isCommand(text) == toLowerCase(trim(text)) \in CommandPhrases

(* recognition.onresult of object r: the engine finalizes utterance u.     *)
(* event.results holds every result of this recognition object, so         *)
(* final_transcript is the concatenation of all its final results.         *)
onresult(r, u) ==
  /\ recs[r].phase \in {"active", "stopping"}
  /\ inputs < MaxInputs
  /\ inputs' = inputs + 1
  /\ LET i == recs[r].inst
         cl == recs[r].cl
         final_transcript == recs[r].final \o u
         rs == [recs EXCEPT ![r].final = final_transcript]
         newChunk == substring(final_transcript, Len(lastFinalTranscript[i]))
         text == trim(newChunk)
     IN IF final_transcript # <<>> /\ final_transcript # lastFinalTranscript[i]
        THEN /\ lastFinalTranscript' = [lastFinalTranscript EXCEPT ![i] = final_transcript]
             /\ IF text = <<>>
                THEN /\ recs' = rs
                     /\ lastOp' = "onresult"
                     /\ UNCHANGED <<status, timers, seq, fetches>>
                ELSE IF isCommand(text)
                THEN /\ handleSearch(cl.searchParams, i, rs)
                     /\ lastOp' = "onresult:handleSearch"
                     /\ UNCHANGED fetches
                ELSE IF Len(trim(text)) < 3
                THEN /\ recs' = rs
                     /\ lastOp' = "onresult:ignored"
                     /\ UNCHANGED <<status, timers, seq, fetches>>
                ELSE /\ status' = IF Live(i) THEN "processing" ELSE status
                     /\ fetches' = fetches \cup
                          {[id |-> seq + 1, inst |-> i, rec |-> r, query |-> text,
                            sp |-> cl.searchParams]}
                     /\ seq' = seq + 1
                     /\ recs' = rs
                     /\ lastOp' = "onresult:fetch"
                     /\ UNCHANGED timers
        ELSE /\ recs' = rs
             /\ lastOp' = "onresult"
             /\ UNCHANGED <<lastFinalTranscript, status, timers, seq, fetches>>
  /\ UNCHANGED nonVS
  /\ UNCHANGED <<showVoiceSearch, searchResults, searchParams, inst, isDemoMode,
                 recognitionRef, recCount, resultsCalls, srSupported, sessRec, sessAdded>>

(* recognition.onend of object r: the engine has stopped, after stop() or  *)
(* on its own.  The handler reads the status of the render that created it.*)
onend(r) ==
  /\ recs[r].phase \in {"active", "stopping"}
  /\ LET i == recs[r].inst
         cl == recs[r].cl
     IN IF recs[r].onend
        THEN /\ recognitionRef' = [recognitionRef EXCEPT ![i] = 0]
             /\ status' = IF cl.status = "listening" /\ Live(i) THEN "confirming" ELSE status
        ELSE UNCHANGED <<recognitionRef, status>>
  /\ recs' = [recs EXCEPT ![r] = [NoRec EXCEPT !.phase = "ended"]]
  /\ lastOp' = "onend"
  /\ UNCHANGED nonVS
  /\ UNCHANGED <<showVoiceSearch, searchResults, searchParams, inst, isDemoMode,
                 lastFinalTranscript, recCount, fetches, timers, seq, resultsCalls,
                 srSupported, inputs, sessRec, sessAdded>>

(* The loop of processTranscript over responseData, against the            *)
(* searchParams sp of the render that created the handler: the value of    *)
(* updatedParamsPartial per key, <<>> for a key it does not set.           *)
updatedParamsPartial(sp, responseData) ==
  [key \in ParamKeys |->
     IF responseData[key] = <<>> THEN <<>>
     ELSE IF key = "amenities"
       THEN LET newAmenities == {a \in responseData[key][1] :
                                   a \in AMENITY_CONFIG /\ a \notin sp["amenities"]}
            IN IF newAmenities # {} THEN <<sp["amenities"] \cup newAmenities>> ELSE <<>>
     ELSE IF key = "tags"
       THEN LET newTags == {t \in responseData[key][1] :
                              t \in PERMANENT_TAG_CONFIG /\ t \notin sp["tags"]}
            IN IF newTags # {} THEN <<sp["tags"] \cup newTags>> ELSE <<>>
     ELSE IF responseData[key][1] = Null THEN <<>>
     ELSE responseData[key]]

(* setSearchParams(prevParams => ({ ...prevParams, ...updatedParamsPartial })) *)
mergeParams(prevParams, partial) ==
  [key \in ParamKeys |-> IF partial[key] = <<>> THEN prevParams[key] ELSE partial[key][1]]

(* What the chunks merged so far in this listening session added; chunk is *)
(* the number (request id) of the chunk whose scalar was merged last.      *)
noteAdded(added, id, sp, responseData, partial) ==
  [amenities |-> added.amenities \cup
       (IF partial["amenities"] = <<>> THEN {} ELSE partial["amenities"][1] \ sp["amenities"]),
   tags |-> added.tags \cup
       (IF partial["tags"] = <<>> THEN {} ELSE partial["tags"][1] \ sp["tags"]),
   scalars |-> [k \in ScalarKeys |->
       IF partial[k] = <<>> THEN added.scalars[k] ELSE partial[k]],
   chunk |-> [k \in ScalarKeys |->
       IF partial[k] = <<>> THEN added.chunk[k] ELSE id]]

setStatusAfter_alwaysIdle(f) ==
  IF Live(f.inst) THEN "idle" ELSE status

(* setStatus(recognitionRef.current ? 'listening' : 'idle') *)
setStatusAfter(f) ==
  IF Live(f.inst)
  THEN (IF recognitionRef[f.inst] # 0 THEN "listening" ELSE "idle")
  ELSE status

(* The continuation of processTranscript after await fetch(...): the       *)
(* request f is answered with status 200 and the body responseData.        *)
processOk(f, responseData) ==
  /\ f \in fetches
  /\ fetches' = fetches \ {f}
  /\ LET partial == updatedParamsPartial(f.sp, responseData)
     IN IF \E key \in ParamKeys : partial[key] # <<>>
        THEN /\ searchParams' = mergeParams(searchParams, partial)
             /\ status' = IF Live(f.inst) THEN "confirming" ELSE status
             /\ sessAdded' = IF f.rec = sessRec
                             THEN noteAdded(sessAdded, f.id, f.sp, responseData, partial)
                             ELSE sessAdded
             /\ lastOp' = IF f.rec = sessRec THEN "processTranscript:merged"
                          ELSE "processTranscript:merged late"
        ELSE /\ status' = setStatusAfter(f)
             /\ lastOp' = "processTranscript:nothing"
             /\ UNCHANGED <<searchParams, sessAdded>>
  /\ UNCHANGED nonVS
  /\ UNCHANGED <<showVoiceSearch, searchResults, inst, isDemoMode, recognitionRef,
                 lastFinalTranscript, recs, recCount, timers, seq, resultsCalls,
                 srSupported, inputs, sessRec>>

(* The catch block: fetch rejected, the status was not OK, or the body was *)
(* not JSON.                                                               *)
processFailed(f, why) ==
  /\ f \in fetches
  /\ fetches' = fetches \ {f}
  /\ status' = setStatusAfter(f)
  /\ lastOp' = "processTranscript:failed"
  /\ UNCHANGED nonVS
  /\ UNCHANGED <<showVoiceSearch, searchResults, searchParams, inst, isDemoMode,
                 recognitionRef, lastFinalTranscript, recs, recCount, timers, seq,
                 resultsCalls, srSupported, inputs, sessRec, sessAdded>>

FailureKinds == {"rejected", "status 400", "status 500", "bad body"}

VSNext ==
  \/ handleStartSearch
  \/ handleCloseSearch
  \/ \E t \in timers : handleResults(t)
  \/ handleStartListening
  \/ handleStopListening
  \/ handleCancel
  \/ SearchButton
  \/ \E tagKey \in PERMANENT_TAG_CONFIG : handleToggleTag(tagKey)
  \/ \E newRange \in PriceRanges : handlePriceChange(newRange)
  \/ \E r \in 1..MaxRecs, u \in VSUtterances : onresult(r, u)
  \/ \E r \in 1..MaxRecs : onend(r)
  \/ \E f \in fetches, responseData \in Replies : processOk(f, responseData)
  \/ \E f \in fetches, why \in FailureKinds : processFailed(f, why)

(***************************************************************************)
(* EnhancedVoiceSearch and InstantVoiceSearch.                             *)
(***************************************************************************)
uvHouse == <<"h", "o", "u", "s", "e">>
uvLetsGo == <<"L", "e", "t", "'", "s", " ", "g", "o">>
uvHi == <<"h", "i">>
UVUtterances == {uvHouse, uvLetsGo, uvHi}

CONFIRMATION_PHRASES ==
  { <<"l","e","t","'","s"," ","g","o">>, <<"l","e","t","s"," ","g","o">>,
    <<"o","k","a","y">>, <<"y","e","s">>, <<"s","e","a","r","c","h">>,
    <<"f","i","n","d">>, <<"d","o"," ","i","t">>, <<"c","o","n","f","i","r","m">> }

checkConfirmationPhrase(text) ==
  LET cleanText == trim(toLowerCase(text))
  IN \E phrase \in CONFIRMATION_PHRASES : includes(cleanText, phrase)

(* The component each mode renders (renderSelectedMode); 'realtime'        *)
(* renders EnhancedRealtimeVoiceSearch, which is modelled further down.    *)
Modes == {"enhanced", "instant", "classic"}
Component(mode) == IF mode = "instant" THEN "Instant" ELSE "Enhanced"

(* The values a render's handlers close over. *)
Render(state, final, live, listening) ==
  [state |-> state, finalTranscript |-> final, liveTranscript |-> live,
   isListening |-> listening]
FirstRender == Render("initializing", <<>>, <<>>, FALSE)
CurrentRender == Render(uvState, finalTranscript, liveTranscript, isListening)

NoUvRec == [phase |-> "none", cl |-> FirstRender]
NoSilence == [armed |-> FALSE, isListening |-> FALSE]

UVInit ==
  /\ showModeSelector = TRUE
  /\ selectedMode = "instant"
  /\ uvMounted = FALSE
  /\ uvState = "initializing"
  /\ finalTranscript = <<>>
  /\ liveTranscript = <<>>
  /\ isListening = FALSE
  /\ showConfirm = FALSE
  /\ uvRec = NoUvRec
  /\ initTimer = FALSE
  /\ silenceTimeout = NoSilence
  /\ uvFetches = {}
  /\ uvTimers = {}
  /\ uvSeq = 0
  /\ uvResults = 0
  /\ onCloseCalls = 0
  /\ onResultsCalls = 0

(* UniversalVoiceSearch.handleModeSelect: the component is mounted and its *)
(* mount effect starts the 500 ms timer.                                   *)
handleModeSelect(mode) ==
  /\ showModeSelector
  /\ selectedMode' = mode
  /\ showModeSelector' = FALSE
  /\ uvMounted' = TRUE
  /\ initTimer' = TRUE
  /\ lastOp' = "handleModeSelect"
  /\ UNCHANGED <<uvState, finalTranscript, liveTranscript, isListening, showConfirm,
                 uvRec, silenceTimeout, uvFetches, uvTimers, uvSeq, uvResults,
                 onCloseCalls, onResultsCalls>>
  /\ UNCHANGED nonUV

uvStop(rec) == IF rec.phase \in {"starting", "active"} THEN [rec EXCEPT !.phase = "stopping"] ELSE rec

(* initializeVoiceRecognition as created in the render cl. *)
initializeVoiceRecognition(cl) ==
  IF ~srSupported
  THEN /\ onCloseCalls' = onCloseCalls + 1
       /\ UNCHANGED uvRec
  ELSE /\ uvRec' = [phase |-> "starting", cl |-> cl]
       /\ UNCHANGED onCloseCalls

(* The timer of the mount effect fires: it calls the function of the first *)
(* render, the only render the effect (dependency list []) ever ran in.    *)
MountTimer ==
  /\ uvMounted
  /\ initTimer
  /\ initTimer' = FALSE
  /\ initializeVoiceRecognition(FirstRender)
  /\ lastOp' = "initializeVoiceRecognition"
  /\ UNCHANGED <<showModeSelector, selectedMode, uvMounted, uvState, finalTranscript,
                 liveTranscript, isListening, showConfirm, silenceTimeout, uvFetches,
                 uvTimers, uvSeq, uvResults, onResultsCalls>>
  /\ UNCHANGED nonUV

onstart ==
  /\ uvRec.phase = "starting"
  /\ uvRec' = [uvRec EXCEPT !.phase = "active"]
  /\ isListening' = IF uvMounted THEN TRUE ELSE isListening
  /\ uvState' = IF uvMounted THEN "listening" ELSE uvState
  /\ lastOp' = "onstart"
  /\ UNCHANGED <<showModeSelector, selectedMode, uvMounted, finalTranscript,
                 liveTranscript, showConfirm, initTimer, silenceTimeout, uvFetches,
                 uvTimers, uvSeq, uvResults, onCloseCalls, onResultsCalls>>
  /\ UNCHANGED nonUV

resetSilenceTimer(cl) == [armed |-> TRUE, isListening |-> cl.isListening]

(* EnhancedVoiceSearch.processTranscript as created in the render cl. *)
Enhanced_processTranscript(cl) ==
  LET textToProcess == trim(cl.finalTranscript)
  IN /\ uvState' = IF uvMounted THEN "processing" ELSE uvState
     /\ IF Len(textToProcess) < 5
        THEN /\ onCloseCalls' = onCloseCalls + 1
             /\ UNCHANGED <<uvFetches, uvSeq>>
        ELSE /\ uvFetches' = uvFetches \cup {[id |-> uvSeq + 1, query |-> textToProcess]}
             /\ uvSeq' = uvSeq + 1
             /\ UNCHANGED onCloseCalls

(* EnhancedVoiceSearch: recognition.onresult with one new final result u.  *)
Enhanced_onresult(u) ==
  /\ Component(selectedMode) = "Enhanced"
  /\ uvRec.phase \in {"active", "stopping"}
  /\ uvResults < MaxUvResults
  /\ uvResults' = uvResults + 1
  /\ LET cl == uvRec.cl
         finalTranscriptUpdate == u \o <<" ">>
     IN /\ finalTranscript' = IF uvMounted THEN finalTranscript \o finalTranscriptUpdate
                              ELSE finalTranscript
        /\ silenceTimeout' = resetSilenceTimer(cl)
        /\ IF checkConfirmationPhrase(finalTranscriptUpdate)
           THEN /\ uvRec' = uvStop(uvRec)
                /\ Enhanced_processTranscript(cl)
                /\ lastOp' = "Enhanced:onresult:handleSearch"
           ELSE /\ lastOp' = "Enhanced:onresult"
                /\ UNCHANGED <<uvRec, uvState, onCloseCalls, uvFetches, uvSeq>>
  /\ UNCHANGED <<showModeSelector, selectedMode, uvMounted, liveTranscript, isListening,
                 showConfirm, initTimer, uvTimers, onResultsCalls>>
  /\ UNCHANGED nonUV

(* EnhancedVoiceSearch: recognition.onend. *)
Enhanced_onend ==
  /\ Component(selectedMode) = "Enhanced"
  /\ uvRec.phase \in {"starting", "active", "stopping"}
  /\ uvRec' = [uvRec EXCEPT !.phase = "ended"]
  /\ isListening' = IF uvMounted THEN FALSE ELSE isListening
  /\ IF uvRec.cl.state = "listening" /\ Len(trim(uvRec.cl.finalTranscript)) > 0 /\ uvMounted
     THEN /\ showConfirm' = TRUE
          /\ uvState' = "confirming"
     ELSE UNCHANGED <<showConfirm, uvState>>
  /\ lastOp' = "Enhanced:onend"
  /\ UNCHANGED <<showModeSelector, selectedMode, uvMounted, finalTranscript,
                 liveTranscript, initTimer, silenceTimeout, uvFetches, uvTimers, uvSeq,
                 uvResults, onCloseCalls, onResultsCalls>>
  /\ UNCHANGED nonUV

(* InstantVoiceSearch.processCompleteTranscript as created in the render cl. *)
Instant_processCompleteTranscript(cl) ==
  LET textToProcess == IF trim(cl.finalTranscript) # <<>> THEN trim(cl.finalTranscript)
                       ELSE trim(cl.liveTranscript)
  IN /\ uvState' = IF uvMounted THEN "processing" ELSE uvState
     /\ IF Len(textToProcess) < 5
        THEN /\ onCloseCalls' = onCloseCalls + 1
             /\ UNCHANGED <<uvFetches, uvSeq>>
        ELSE /\ uvFetches' = uvFetches \cup {[id |-> uvSeq + 1, query |-> textToProcess]}
             /\ uvSeq' = uvSeq + 1
             /\ UNCHANGED onCloseCalls

(* InstantVoiceSearch: recognition.onresult with one new final result u. *)
Instant_onresult(u) ==
  /\ Component(selectedMode) = "Instant"
  /\ uvRec.phase \in {"active", "stopping"}
  /\ uvResults < MaxUvResults
  /\ uvResults' = uvResults + 1
  /\ LET cl == uvRec.cl
         finalTranscriptUpdate == u \o <<" ">>
         currentFullTranscript == cl.finalTranscript \o finalTranscriptUpdate
     IN /\ liveTranscript' = IF uvMounted THEN currentFullTranscript ELSE liveTranscript
        /\ finalTranscript' = IF uvMounted THEN finalTranscript \o finalTranscriptUpdate
                              ELSE finalTranscript
        /\ silenceTimeout' = resetSilenceTimer(cl)
  /\ lastOp' = "Instant:onresult"
  /\ UNCHANGED <<showModeSelector, selectedMode, uvMounted, uvState, isListening,
                 showConfirm, uvRec, initTimer, uvFetches, uvTimers, uvSeq, onCloseCalls,
                 onResultsCalls>>
  /\ UNCHANGED nonUV

(* InstantVoiceSearch: recognition.onend. *)
Instant_onend ==
  /\ Component(selectedMode) = "Instant"
  /\ uvRec.phase \in {"starting", "active", "stopping"}
  /\ uvRec' = [uvRec EXCEPT !.phase = "ended"]
  /\ isListening' = IF uvMounted THEN FALSE ELSE isListening
  /\ LET cl == uvRec.cl
     IN IF cl.state = "listening"
           /\ (Len(trim(cl.finalTranscript)) > 0 \/ Len(trim(cl.liveTranscript)) > 0)
        THEN Instant_processCompleteTranscript(cl)
        ELSE UNCHANGED <<uvState, onCloseCalls, uvFetches, uvSeq>>
  /\ lastOp' = "Instant:onend"
  /\ UNCHANGED <<showModeSelector, selectedMode, uvMounted, finalTranscript,
                 liveTranscript, showConfirm, initTimer, silenceTimeout, uvTimers,
                 uvResults, onResultsCalls>>
  /\ UNCHANGED nonUV

(* recognition.onerror (the same in both components); the engine ends the  *)
(* session after an error, so onend follows.                               *)
SpeechErrors == {"no-speech", "not-allowed"}
onerror(error) ==
  /\ uvRec.phase \in {"starting", "active"}
  /\ uvRec' = [uvRec EXCEPT !.phase = "stopping"]
  /\ isListening' = IF uvMounted THEN FALSE ELSE isListening
  /\ onCloseCalls' = IF error = "no-speech" THEN onCloseCalls + 1 ELSE onCloseCalls
  /\ lastOp' = "onerror"
  /\ UNCHANGED <<showModeSelector, selectedMode, uvMounted, uvState, finalTranscript,
                 liveTranscript, showConfirm, initTimer, silenceTimeout, uvFetches,
                 uvTimers, uvSeq, uvResults, onResultsCalls>>
  /\ UNCHANGED nonUV

(* The callback of resetSilenceTimer fires. *)
SilenceTimer ==
  /\ silenceTimeout.armed
  /\ silenceTimeout' = NoSilence
  /\ uvRec' = IF uvRec.phase # "none" /\ silenceTimeout.isListening THEN uvStop(uvRec)
              ELSE uvRec
  /\ lastOp' = "silenceTimeout"
  /\ UNCHANGED <<showModeSelector, selectedMode, uvMounted, uvState, finalTranscript,
                 liveTranscript, isListening, showConfirm, initTimer, uvFetches,
                 uvTimers, uvSeq, uvResults, onCloseCalls, onResultsCalls>>
  /\ UNCHANGED nonUV

(* The close button of the component calls onClose. *)
CloseButton ==
  /\ uvMounted
  /\ onCloseCalls < MaxCloseClicks
  /\ onCloseCalls' = onCloseCalls + 1
  /\ lastOp' = "onClose"
  /\ UNCHANGED <<showModeSelector, selectedMode, uvMounted, uvState, finalTranscript,
                 liveTranscript, isListening, showConfirm, uvRec, initTimer,
                 silenceTimeout, uvFetches, uvTimers, uvSeq, uvResults, onResultsCalls>>
  /\ UNCHANGED nonUV

(* The parent unmounts the component: the cleanup of the mount effect. *)
uvUnmount ==
  /\ uvMounted
  /\ uvMounted' = FALSE
  /\ initTimer' = FALSE
  /\ uvRec' = uvStop(uvRec)
  /\ silenceTimeout' = NoSilence
  /\ lastOp' = "unmount"
  /\ UNCHANGED <<showModeSelector, selectedMode, uvState, finalTranscript,
                 liveTranscript, isListening, showConfirm, uvFetches, uvTimers, uvSeq,
                 uvResults, onCloseCalls, onResultsCalls>>
  /\ UNCHANGED nonUV

UVNext ==
  \/ \E mode \in Modes : handleModeSelect(mode)
  \/ MountTimer
  \/ onstart
  \/ \E u \in UVUtterances : Enhanced_onresult(u)
  \/ Enhanced_onend
  \/ \E u \in UVUtterances : Instant_onresult(u)
  \/ Instant_onend
  \/ \E error \in SpeechErrors : onerror(error)
  \/ SilenceTimer
  \/ CloseButton
  \/ uvUnmount

(***************************************************************************)
(* The remaining handlers of EnhancedVoiceSearch and InstantVoiceSearch:   *)
(* the answer of /api/voice/process, the 800 ms result timer and the       *)
(* buttons of the 'confirming' view.                                       *)
(***************************************************************************)

(* What `await fetch(...)` followed by `await response.json()` can yield:  *)
(* a rejection, a body that is not JSON, or a JSON body with a status.     *)
FetchOutcomes == {"rejected", "badBody", "200", "400", "500"}

(* The continuation of processTranscript / processCompleteTranscript after *)
(* the await (the two are the same code).                                  *)
processAnswer(f, outcome) ==
  /\ f \in uvFetches
  /\ uvFetches' = uvFetches \ {f}
  /\ IF outcome \in {"rejected", "badBody"}
     THEN /\ onCloseCalls' = onCloseCalls + 1
          /\ UNCHANGED <<uvState, uvTimers>>
     ELSE /\ uvState' = IF uvMounted THEN "complete" ELSE uvState
          /\ uvTimers' = uvTimers \cup {[id |-> f.id, status |-> outcome]}
          /\ UNCHANGED onCloseCalls
  /\ lastOp' = "answer:" \o outcome
  /\ UNCHANGED <<showModeSelector, selectedMode, uvMounted, finalTranscript,
                 liveTranscript, isListening, showConfirm, uvRec, initTimer,
                 silenceTimeout, uvSeq, uvResults, onResultsCalls>>
  /\ UNCHANGED nonUV

(* The 800 ms timer: generateMockResults(params), then onResults(results). *)
ResultTimer(t) ==
  /\ t \in uvTimers
  /\ uvTimers' = uvTimers \ {t}
  /\ onResultsCalls' = onResultsCalls + 1
  /\ lastOp' = "onResults"
  /\ UNCHANGED <<showModeSelector, selectedMode, uvMounted, uvState, finalTranscript,
                 liveTranscript, isListening, showConfirm, uvRec, initTimer,
                 silenceTimeout, uvFetches, uvSeq, uvResults, onCloseCalls>>
  /\ UNCHANGED nonUV

(* EnhancedVoiceSearch: the Search button of the 'confirming' view calls   *)
(* the handleSearch of the render on screen.                               *)
Enhanced_handleSearch ==
  /\ Component(selectedMode) = "Enhanced"
  /\ uvMounted
  /\ uvState = "confirming"
  /\ uvRec' = uvStop(uvRec)
  /\ Enhanced_processTranscript(CurrentRender)
  /\ lastOp' = "Enhanced:handleSearch"
  /\ UNCHANGED <<showModeSelector, selectedMode, uvMounted, finalTranscript,
                 liveTranscript, isListening, showConfirm, initTimer, silenceTimeout,
                 uvTimers, uvResults, onResultsCalls>>
  /\ UNCHANGED nonUV

(* EnhancedVoiceSearch: the Retry button of the 'confirming' view. *)
handleRetry ==
  /\ Component(selectedMode) = "Enhanced"
  /\ uvMounted
  /\ uvState = "confirming"
  /\ uvRec.phase \in {"none", "ended"}
  /\ finalTranscript' = <<>>
  /\ liveTranscript' = <<>>
  /\ showConfirm' = FALSE
  /\ uvState' = "listening"
  /\ initializeVoiceRecognition(CurrentRender)
  /\ lastOp' = "handleRetry"
  /\ UNCHANGED <<showModeSelector, selectedMode, uvMounted, isListening, initTimer,
                 silenceTimeout, uvFetches, uvTimers, uvSeq, uvResults, onResultsCalls>>
  /\ UNCHANGED nonUV

(* The handlers on their own: the component is on screen and listening,    *)
(* and the recognition's callbacks are those of the render on screen.      *)
HeardSoFar == {<<>>, uvHi \o <<" ">>, uvHouse \o <<" ">>}
ListeningComponent ==
  /\ VSInit
  /\ srSupported
  /\ showModeSelector = FALSE
  /\ selectedMode \in Modes
  /\ uvMounted = TRUE
  /\ uvState = "listening"
  /\ finalTranscript \in HeardSoFar
  /\ liveTranscript = finalTranscript
  /\ isListening = TRUE
  /\ showConfirm = FALSE
  /\ uvRec = [phase |-> "active", cl |-> Render("listening", finalTranscript, liveTranscript, TRUE)]
  /\ initTimer = FALSE
  /\ silenceTimeout = NoSilence
  /\ uvFetches = {}
  /\ uvTimers = {}
  /\ uvSeq = 0
  /\ uvResults = 0
  /\ onCloseCalls = 0
  /\ onResultsCalls = 0
  /\ lastOp = "init"

HandlersNext ==
  \/ onstart
  \/ \E u \in UVUtterances : Enhanced_onresult(u)
  \/ Enhanced_onend
  \/ \E u \in UVUtterances : Instant_onresult(u)
  \/ Instant_onend
  \/ \E error \in SpeechErrors : onerror(error)
  \/ SilenceTimer
  \/ Enhanced_handleSearch
  \/ handleRetry
  \/ \E f \in uvFetches, outcome \in FetchOutcomes : processAnswer(f, outcome)
  \/ \E t \in uvTimers : ResultTimer(t)
  \/ CloseButton
  \/ uvUnmount

(***************************************************************************)
(* EnhancedRealtimeVoiceSearch, OpenAIRealtimeService and                  *)
(* AustralianPropertyService.                                              *)
(***************************************************************************)

(* window.localStorage: key -> <<>> (no item) or <<value>>. *)
StorageKeys == {"openai_api_key", "theme"}
TypedKeys == {"", "sk-new"}
StoredBefore == {<<>>, <<"sk-old">>}

(* The embedded mock catalogue and the search over it, reduced to prices. *)
mockProperties == {[id |-> "p1", price |-> 5], [id |-> "p2", price |-> 8]}
SearchArgs == {[priceMax |-> <<6>>], [priceMax |-> <<3>>]}
searchProperties(params) ==
  IF params.priceMax # <<>>
  THEN {p \in mockProperties : p.price <= params.priceMax[1]}
  ELSE mockProperties

CallIds == {"call_1", "call_2"}
NoField == "-"
(* A message on a socket. `answers` is not sent: it records the function  *)
(* call (its id and, when they parse, its arguments) whose handling        *)
(* produced the message.                                                   *)
NoCall == [call_id |-> NoField, arguments |-> <<>>]
Message(svc, type, itemType, callId, output, call) ==
  [svc |-> svc, type |-> type, item_type |-> itemType, call_id |-> callId,
   output |-> output, answers |-> call]
SearchOutput(properties) == [count |-> Cardinality(properties), properties |-> properties]
ErrorOutput == [error |-> "Invalid search parameters"]

rtMounted == rtLife = "mounted"

RTInit ==
  /\ localStorage \in [StorageKeys -> StoredBefore]
  /\ rtLife = "new"
  /\ rtState = "connecting"
  /\ apiKey = ""
  /\ showSettings = FALSE
  /\ serviceRef = 0
  /\ services = <<>>
  /\ outbox = <<>>
  /\ rtInputs = 0
  /\ rtTimers = 0
  /\ rtResultsCalls = 0

(* OpenAIRealtimeService.sendMessage: dropped unless the socket is open. *)
sendMessage(box, s, message) ==
  IF services[s].ws = "open" THEN Append(box, message) ELSE box

sendFunctionResult(box, s, callId, result, call) ==
  sendMessage(sendMessage(box, s,
                Message(s, "conversation.item.create", "function_call_output", callId,
                        result, call)),
              s, Message(s, "response.create", NoField, NoField, NoField, call))

(* initializeService(key): a new service replaces serviceRef.current and   *)
(* initialize() runs up to the connection attempt; audioOk tells whether   *)
(* the AudioContext could be created and resumed.                          *)
initializeService(key, audioOk) ==
  /\ services' = Append(services, [ws |-> IF audioOk THEN "connecting" ELSE "none",
                                   apiKey |-> key])
  /\ serviceRef' = Len(services) + 1

(* The mount effect of EnhancedRealtimeVoiceSearch. *)
RealtimeMount(audioOk) ==
  /\ rtLife = "new"
  /\ rtLife' = "mounted"
  /\ LET storedApiKey == localStorage["openai_api_key"]
     IN IF storedApiKey # <<>> /\ storedApiKey[1] # ""
        THEN /\ apiKey' = storedApiKey[1]
             /\ initializeService(storedApiKey[1], audioOk)
             /\ UNCHANGED rtState
        ELSE /\ rtState' = "error"
             /\ UNCHANGED <<apiKey, services, serviceRef>>
  /\ lastOp' = "RealtimeMount"
  /\ UNCHANGED <<localStorage, showSettings, outbox, rtInputs, rtTimers, rtResultsCalls>>
  /\ UNCHANGED nonRT

ToggleSettings ==
  /\ rtMounted
  /\ showSettings' = ~showSettings
  /\ lastOp' = "setShowSettings"
  /\ UNCHANGED <<localStorage, rtLife, rtState, apiKey, serviceRef, services, outbox,
                 rtInputs, rtTimers, rtResultsCalls>>
  /\ UNCHANGED nonRT

(* The API-key input of the settings panel. *)
setApiKey(key) ==
  /\ rtMounted
  /\ showSettings
  /\ key # apiKey
  /\ rtInputs < MaxRtInputs
  /\ rtInputs' = rtInputs + 1
  /\ apiKey' = key
  /\ lastOp' = "setApiKey"
  /\ UNCHANGED <<localStorage, rtLife, rtState, showSettings, serviceRef, services,
                 outbox, rtTimers, rtResultsCalls>>
  /\ UNCHANGED nonRT

handleApiKeySave_otherItem(audioOk) ==
  /\ rtMounted
  /\ showSettings
  /\ rtInputs < MaxRtInputs
  /\ rtInputs' = rtInputs + 1
  /\ localStorage' = [localStorage EXCEPT !["openai_api_key"] = <<apiKey>>,
                                          !["theme"] = <<apiKey>>]
  /\ showSettings' = FALSE
  /\ initializeService(apiKey, audioOk)
  /\ lastOp' = "handleApiKeySave"
  /\ UNCHANGED <<rtLife, rtState, apiKey, outbox, rtTimers, rtResultsCalls>>
  /\ UNCHANGED nonRT

(* The Save button of the settings panel: handleApiKeySave(apiKey). *)
handleApiKeySave(audioOk) ==
  /\ rtMounted
  /\ showSettings
  /\ rtInputs < MaxRtInputs
  /\ rtInputs' = rtInputs + 1
  /\ localStorage' = [localStorage EXCEPT !["openai_api_key"] = <<apiKey>>]
  /\ showSettings' = FALSE
  /\ initializeService(apiKey, audioOk)
  /\ lastOp' = "handleApiKeySave"
  /\ UNCHANGED <<rtLife, rtState, apiKey, outbox, rtTimers, rtResultsCalls>>
  /\ UNCHANGED nonRT

(* ws.onopen: sendSessionUpdate. *)
onopen(s) ==
  /\ services[s].ws = "connecting"
  /\ services' = [services EXCEPT ![s].ws = "open"]
  /\ outbox' = Append(outbox, Message(s, "session.update", NoField, NoField, NoField, NoCall))
  /\ lastOp' = "ws.onopen"
  /\ UNCHANGED <<localStorage, rtLife, rtState, apiKey, showSettings, serviceRef,
                 rtInputs, rtTimers, rtResultsCalls>>
  /\ UNCHANGED nonRT

(* ws.onerror / ws.onclose: connect() rejects or the connection is lost;   *)
(* initialize() catches the rejection and returns false.                   *)
wsFailed(s) ==
  /\ services[s].ws \in {"connecting", "open"}
  /\ services' = [services EXCEPT ![s].ws = "closed"]
  /\ lastOp' = "ws.onerror"
  /\ UNCHANGED <<localStorage, rtLife, rtState, apiKey, showSettings, serviceRef, outbox,
                 rtInputs, rtTimers, rtResultsCalls>>
  /\ UNCHANGED nonRT

(* handleRealtimeMessage for the messages that only change the view. *)
ServerEvents ==
  [type : {"session.created"}, state : {"connected"}] \cup
  [type : {"input_audio_buffer.speech_started"}, state : {"listening"}] \cup
  [type : {"input_audio_buffer.speech_stopped"}, state : {"processing"}] \cup
  [type : {"response.created"}, state : {"speaking"}] \cup
  [type : {"response.done"}, state : {"connected"}] \cup
  [type : {"error"}, state : {"error"}]
handleRealtimeMessage(s, event) ==
  /\ services[s].ws = "open"
  /\ rtMounted
  /\ rtState # event.state
  /\ rtInputs < MaxRtInputs
  /\ rtInputs' = rtInputs + 1
  /\ rtState' = event.state
  /\ lastOp' = "message"
  /\ UNCHANGED <<localStorage, rtLife, apiKey, showSettings, serviceRef, services,
                 outbox, rtTimers, rtResultsCalls>>
  /\ UNCHANGED nonRT

(* response.function_call_arguments.done for search_properties with       *)
(* unparseable arguments: handleFunctionCall answers by itself.            *)
handleFunctionCall_badArguments(s, callId) ==
  /\ services[s].ws = "open"
  /\ rtInputs < MaxRtInputs
  /\ rtInputs' = rtInputs + 1
  /\ outbox' = sendFunctionResult(outbox, s, callId, ErrorOutput,
                                 [call_id |-> callId, arguments |-> <<>>])
  /\ lastOp' = "function_call:badArguments"
  /\ UNCHANGED <<localStorage, rtLife, rtState, apiKey, showSettings, serviceRef,
                 services, rtTimers, rtResultsCalls>>
  /\ UNCHANGED nonRT

(* response.function_call_arguments.done for search_properties: the        *)
(* service emits property_search_requested {searchParams, callId} and the  *)
(* component's handler runs handlePropertySearch(searchParams).            *)
handlePropertySearch(s, callId, args) ==
  /\ services[s].ws = "open"
  /\ rtInputs < MaxRtInputs
  /\ rtInputs' = rtInputs + 1
  /\ LET properties == searchProperties(args)
     IN /\ outbox' = IF serviceRef # 0
                     THEN sendFunctionResult(outbox, serviceRef,
                            IF Cardinality(properties) > 0 THEN "success" ELSE "no_results",
                            SearchOutput(properties),
                            [call_id |-> callId, arguments |-> <<args>>])
                     ELSE outbox
        /\ rtTimers' = rtTimers + 1
  /\ lastOp' = "function_call"
  /\ UNCHANGED <<localStorage, rtLife, rtState, apiKey, showSettings, serviceRef,
                 services, rtResultsCalls>>
  /\ UNCHANGED nonRT

(* The 1000 ms timer of handlePropertySearch: onResults(result.properties). *)
RealtimeResultTimer ==
  /\ rtTimers > 0
  /\ rtTimers' = rtTimers - 1
  /\ rtResultsCalls' = rtResultsCalls + 1
  /\ lastOp' = "onResults"
  /\ UNCHANGED <<localStorage, rtLife, rtState, apiKey, showSettings, serviceRef,
                 services, outbox, rtInputs>>
  /\ UNCHANGED nonRT

(* The cleanup of the mount effect: serviceRef.current.disconnect(). *)
RealtimeUnmount ==
  /\ rtMounted
  /\ rtLife' = "unmounted"
  /\ services' = IF serviceRef # 0 THEN [services EXCEPT ![serviceRef].ws = "closed"]
                 ELSE services
  /\ lastOp' = "unmount"
  /\ UNCHANGED <<localStorage, rtState, apiKey, showSettings, serviceRef, outbox,
                 rtInputs, rtTimers, rtResultsCalls>>
  /\ UNCHANGED nonRT

RTNext ==
  \/ \E audioOk \in BOOLEAN : RealtimeMount(audioOk)
  \/ ToggleSettings
  \/ \E key \in TypedKeys : setApiKey(key)
  \/ \E audioOk \in BOOLEAN : handleApiKeySave(audioOk)
  \/ \E s \in DOMAIN services : onopen(s)
  \/ \E s \in DOMAIN services : wsFailed(s)
  \/ \E s \in DOMAIN services, event \in ServerEvents : handleRealtimeMessage(s, event)
  \/ \E s \in DOMAIN services, callId \in CallIds : handleFunctionCall_badArguments(s, callId)
  \/ \E s \in DOMAIN services, callId \in CallIds, args \in SearchArgs :
       handlePropertySearch(s, callId, args)
  \/ RealtimeResultTimer
  \/ RealtimeUnmount

(***************************************************************************)
(* POST /api/voice/process.                                                *)
(***************************************************************************)

(* A JavaScript value, as far as `!v` and `typeof v` tell. *)
JsValue(type, truthy) == [type |-> type, truthy |-> truthy]
undefined == JsValue("undefined", FALSE)
Queries ==
  { undefined, JsValue("object", FALSE), JsValue("string", FALSE), JsValue("string", TRUE),
    JsValue("number", FALSE), JsValue("number", TRUE), JsValue("object", TRUE) }

(* The request body: not JSON, the JSON value null, another JSON value     *)
(* that is no object, or an object with (or without) a query.              *)
Bodies ==
  [json : {"unparseable", "null", "number"}, query : {undefined}] \cup
  [json : {"object"}, query : Queries]

EnvValues == {<<>>, <<"">>, <<"key">>}
Configured(e) ==
  \/ e.GOOGLE_AI_API_KEY # <<>> /\ e.GOOGLE_AI_API_KEY[1] # ""
  \/ e.GEMINI_API_KEY # <<>> /\ e.GEMINI_API_KEY[1] # ""

(* What the call of the Gemini endpoint can yield. *)
GeminiOutcomes ==
  {"fetchThrows", "notOk", "bodyNotJson", "bodyNull", "noCandidates", "emptyText",
   "textNotJson", "parsed"}

Response(code, content) == <<[status |-> code, body |-> content]>>

APIInit ==
  /\ env \in [GOOGLE_AI_API_KEY : EnvValues, GEMINI_API_KEY : EnvValues]
  /\ apiPc = "idle"
  /\ apiBody = [json |-> "object", query |-> undefined]
  /\ apiOutcome = "none"
  /\ apiResponse = <<>>

POST_keyFirst(body) ==
  /\ apiPc = "idle"
  /\ apiBody' = body
  /\ apiOutcome' = "none"
  /\ IF body.json \in {"unparseable", "null"}
     THEN /\ apiResponse' = Response(500, "Internal server error")
          /\ apiPc' = "responded"
     ELSE IF ~Configured(env)
     THEN /\ apiResponse' = Response(500, "AI service not configured")
          /\ apiPc' = "responded"
     ELSE IF ~body.query.truthy \/ body.query.type # "string"
     THEN /\ apiResponse' = Response(400, "Invalid query")
          /\ apiPc' = "responded"
     ELSE /\ apiResponse' = <<>>
          /\ apiPc' = "awaitingGemini"
  /\ lastOp' = "POST"
  /\ UNCHANGED env
  /\ UNCHANGED nonAPI

(* POST up to the call of the Gemini endpoint. *)
POST(body) ==
  /\ apiPc = "idle"
  /\ apiBody' = body
  /\ apiOutcome' = "none"
  /\ IF body.json \in {"unparseable", "null"}
     THEN /\ apiResponse' = Response(500, "Internal server error")
          /\ apiPc' = "responded"
     ELSE IF ~body.query.truthy \/ body.query.type # "string"
     THEN /\ apiResponse' = Response(400, "Invalid query")
          /\ apiPc' = "responded"
     ELSE IF ~Configured(env)
     THEN /\ apiResponse' = Response(500, "AI service not configured")
          /\ apiPc' = "responded"
     ELSE /\ apiResponse' = <<>>
          /\ apiPc' = "awaitingGemini"
  /\ lastOp' = "POST"
  /\ UNCHANGED env
  /\ UNCHANGED nonAPI

(* POST from the answer of the Gemini endpoint on. *)
POST_resume(outcome) ==
  /\ apiPc = "awaitingGemini"
  /\ apiOutcome' = outcome
  /\ apiResponse' =
       IF outcome = "notOk" THEN Response(500, "Failed to process voice query")
       ELSE IF outcome \in {"fetchThrows", "bodyNotJson", "bodyNull", "textNotJson"}
       THEN Response(500, "Internal server error")
       ELSE IF outcome \in {"noCandidates", "emptyText"} THEN Response(200, "{}")
       ELSE Response(200, "parsed")
  /\ apiPc' = "responded"
  /\ lastOp' = "POST:resume"
  /\ UNCHANGED <<env, apiBody>>
  /\ UNCHANGED nonAPI

(* The response is delivered; the route is ready for the next request. *)
POST_return ==
  /\ apiPc = "responded"
  /\ apiPc' = "idle"
  /\ apiResponse' = <<>>
  /\ lastOp' = "POST:return"
  /\ UNCHANGED <<env, apiBody, apiOutcome>>
  /\ UNCHANGED nonAPI

APINext ==
  \/ \E body \in Bodies : POST(body)
  \/ \E outcome \in GeminiOutcomes : POST_resume(outcome)
  \/ POST_return

vars == <<vsVars, uvVars, rtVars, apiVars, lastOp>>

(* The parts a specification leaves aside stay as they start. *)
RTQuiet == RTInit /\ localStorage = [k \in StorageKeys |-> <<>>]
APIQuiet == APIInit /\ env = [GOOGLE_AI_API_KEY |-> <<>>, GEMINI_API_KEY |-> <<>>]

Init == VSInit /\ UVInit /\ RTQuiet /\ APIQuiet /\ lastOp = "init"

(* HeroWithVoiceSearch with VoiceSearch. *)
Spec == Init /\ [][VSNext]_vars

(* UniversalVoiceSearch with EnhancedVoiceSearch and InstantVoiceSearch. *)
SpecUniversal == Init /\ [][UVNext]_vars

HandlersInit == ListeningComponent /\ RTQuiet /\ APIQuiet
SpecHandlers == HandlersInit /\ [][HandlersNext]_vars

RealtimeInit == VSInit /\ srSupported /\ UVInit /\ RTInit /\ APIQuiet /\ lastOp = "init"
SpecRealtime == RealtimeInit /\ [][RTNext]_vars

RouteInit == VSInit /\ srSupported /\ UVInit /\ RTQuiet /\ APIInit /\ lastOp = "init"
SpecApi == RouteInit /\ [][APINext]_vars

(***************************************************************************)
(* Properties of VoiceSearch.                                              *)
(***************************************************************************)

(* C1: within one listening session criteria only accumulate: after a      *)
(* chunk's response has been merged, every amenity and tag added by an     *)
(* earlier chunk of the session is still in searchParams, and a scalar set *)
(* by an earlier chunk has the value the latest response supplying that    *)
(* key gave it.                                                            *)
C1_CriteriaOnlyAccumulate ==
  lastOp = "processTranscript:merged" =>
    /\ sessAdded.amenities \subseteq searchParams["amenities"]
    /\ sessAdded.tags \subseteq searchParams["tags"]
    /\ \A k \in ScalarKeys :
         sessAdded.scalars[k] # <<>> => searchParams[k] = sessAdded.scalars[k][1]

(* C4: when processing a chunk fails, searchParams is unchanged, no        *)
(* request is sent again, and the status of the component that sent the    *)
(* request becomes 'listening' if its recognitionRef is set, 'idle'        *)
(* otherwise.                                                              *)
C4_FailureOnlyLogged ==
  [][lastOp' = "processTranscript:failed" =>
       /\ searchParams' = searchParams
       /\ fetches' \subseteq fetches
       /\ Cardinality(fetches \ fetches') = 1
       /\ seq' = seq
       /\ \A f \in fetches \ fetches' :
            Live(f.inst) =>
              status' = IF recognitionRef[f.inst] # 0 THEN "listening" ELSE "idle"]_vars

(* A chunk failed while recognition was running and after an earlier chunk *)
(* had been merged: the criteria are kept and the component listens again. *)
C4_Witness ==
  /\ lastOp = "processTranscript:failed"
  /\ showVoiceSearch
  /\ status = "listening"
  /\ recognitionRef[inst] # 0
  /\ searchParams["amenities"] # {}

(* A failure after recognition has ended leaves the component idle. *)
C4_WitnessIdle ==
  /\ lastOp = "processTranscript:failed"
  /\ showVoiceSearch
  /\ status = "idle"
  /\ recognitionRef[inst] = 0

(* C8: whenever a search is triggered (main button in 'confirming', or a   *)
(* spoken command), status becomes 'done', recognition is stopped, and the *)
(* timer that will call onResults carries the search parameters as         *)
(* accumulated at the moment of the trigger.                               *)
C8_SearchUsesAccumulatedParams ==
  [][lastOp' \in {"handleSearch", "onresult:handleSearch"} =>
       \A t \in timers' \ timers :
         /\ t.params = searchParams
         /\ Live(t.inst) =>
              /\ status' = "done"
              /\ recognitionRef[t.inst] # 0 =>
                   recs'[recognitionRef[t.inst]].phase = "stopping"]_vars

(* C9 (VoiceSearch): when recognition ends while the status is 'listening' *)
(* the status becomes 'confirming'; so the component is never in           *)
(* 'listening' without a recognition object.                               *)
C9_EndWhileListeningConfirms ==
  [][(/\ lastOp' = "onend"
      /\ status = "listening"
      /\ \E r \in 1..MaxRecs :
           /\ recs[r].phase \in {"active", "stopping"}
           /\ recs'[r].phase = "ended"
           /\ recs[r].onend
           /\ Live(recs[r].inst))
     => status' = "confirming"]_vars

(* C9, its consequence: VoiceSearch is never in 'listening' without a      *)
(* recognition object.                                                     *)
C9_ListeningHasRecognition ==
  (showVoiceSearch /\ status = "listening") => recognitionRef[inst] # 0

(* C13: in VoiceSearch a finalized transcript chunk triggers the search    *)
(* if and only if, trimmed and lower-cased, it is exactly one of the       *)
(* command phrases; such a chunk sends no processing request; a chunk that *)
(* merely contains a command word is sent for processing; and a chunk      *)
(* shorter than 3 characters that is no command is ignored: no request, no *)
(* search, status unchanged.                                               *)
C13_ExactCommandTriggersSearch ==
  [][lastOp' \in {"onresult", "onresult:handleSearch", "onresult:ignored",
                  "onresult:fetch"} =>
       LET r == CHOOSE q \in 1..MaxRecs : recs'[q].final # recs[q].final
           i == recs[r].inst
           chunk == trim(substring(recs'[r].final, Len(lastFinalTranscript[i])))
           isNew == recs'[r].final # lastFinalTranscript[i] /\ chunk # <<>>
           command == toLowerCase(chunk) \in
             { <<"s","e","a","r","c","h">>, <<"l","e","t","'","s"," ","g","o">>,
               <<"l","e","t","s"," ","g","o">>, <<"f","i","n","d">>, <<"o","k">>,
               <<"f","i","n","d"," ","m","y"," ","h","o","u","s","e">>,
               <<"f","i","n","d"," ","m","y"," ","h","a","u","s">> }
           searchTriggered == timers' # timers
           requestSent == fetches' # fetches
       IN /\ searchTriggered <=> (isNew /\ command)
          /\ searchTriggered => ~requestSent
          /\ (isNew /\ ~command /\ Len(chunk) >= 3) =>
               \E f \in fetches' \ fetches : f.query = chunk
          /\ (isNew /\ ~command /\ Len(chunk) < 3) =>
               ~requestSent /\ status' = status]_vars

C13_Witness ==
  /\ lastOp = "onresult:fetch"
  /\ \E f \in fetches : includes(f.query, <<"f", "i", "n", "d">>)

C13_WitnessIgnored ==
  /\ lastOp = "onresult:ignored"
  /\ status = "listening"

(* C14: once handleCloseSearch has closed the modal, results appear only   *)
(* from a search run in a modal opened afterwards: whenever the 800 ms     *)
(* timer of handleSearch delivers results, it is the timer of the          *)
(* VoiceSearch instance that is mounted in the open modal, never the timer *)
(* of an instance closed before.                                           *)
C14_NoResultsAfterClose ==
  [][lastOp' = "handleResults" =>
       /\ showVoiceSearch
       /\ \A t \in timers \ timers' : t.inst = inst /\ Live(t.inst)]_vars

(* C15: in VoiceSearch, once status is 'done' it stays 'done' until the    *)
(* component is unmounted (no late processing response and no late speech  *)
(* result moves it back), and a mounted instance never has two pending     *)
(* onResults timers, i.e. no second search is triggered before the results *)
(* of the first are delivered.                                             *)
C15_DoneIsFinal ==
  [][/\ status = "done" => status' \in {"done", "unmounted"}
     /\ \A t1, t2 \in timers' : t1.inst = t2.inst => t1 = t2]_vars

(* C16: in VoiceSearch, a response to a processing request that arrives    *)
(* right after handleCancel (the request was sent before the cancel, and   *)
(* the user has done nothing since) leaves searchParams at its reset value *)
(* (initial, only tags kept) and leaves status 'idle'.                     *)
C16_CancelDiscardsLateResponses ==
  [][(/\ lastOp = "handleCancel"
      /\ lastOp' \in {"processTranscript:merged", "processTranscript:merged late",
                      "processTranscript:nothing", "processTranscript:failed"})
       => /\ searchParams' = resetParams(searchParams)
          /\ searchParams' = searchParams
          /\ status' = "idle"]_vars

(* C17: in VoiceSearch, when the responses to two chunks of one listening  *)
(* session supply the same scalar parameter, the value kept in             *)
(* searchParams once both are handled is the one of the later chunk: a     *)
(* response to an earlier chunk that is handled after the response to a    *)
(* later chunk, with no request of the session left pending, does not      *)
(* replace the later chunk's value.                                        *)
C17_LaterChunkWins ==
  [][lastOp' = "processTranscript:merged" =>
       \A f \in fetches \ fetches' : \A k \in ScalarKeys :
         (/\ sessAdded.scalars[k] # <<>>
          /\ sessAdded.chunk[k] > f.id
          /\ sessAdded'.chunk[k] = f.id
          /\ \A g \in fetches' : g.rec # sessRec)
           => searchParams'[k] = sessAdded.scalars[k][1]]_vars

(***************************************************************************)
(* Properties of EnhancedVoiceSearch and InstantVoiceSearch.               *)
(***************************************************************************)

(* C2: in EnhancedVoiceSearch, when a final result with a confirmation     *)
(* phrase arrives after at least 5 characters of final transcript were     *)
(* spoken, recognition is stopped and the accumulated final transcript is  *)
(* sent to /api/voice/process, and onClose is not called.                  *)
C2_ConfirmationPhraseSearches ==
  [][(/\ lastOp' = "Enhanced:onresult:handleSearch"
      /\ uvMounted
      /\ Len(trim(finalTranscript)) >= 5) =>
       /\ uvRec'.phase = "stopping"
       /\ \E f \in uvFetches' \ uvFetches :
            f.query \in {trim(finalTranscript), trim(finalTranscript')}
       /\ onCloseCalls' = onCloseCalls]_vars

(* C3: in InstantVoiceSearch, when recognition ends after a transcript of  *)
(* at least 5 characters was spoken, the transcript is processed without   *)
(* any further user action: the state becomes 'processing' and the         *)
(* transcript is sent to /api/voice/process.                               *)
C3_EndProcessesAutomatically ==
  [][(/\ lastOp' = "Instant:onend"
      /\ uvMounted
      /\ uvState = "listening"
      /\ Len(trim(finalTranscript)) >= 5) =>
       /\ uvState' = "processing"
       /\ \E f \in uvFetches' \ uvFetches : f.query = trim(finalTranscript)]_vars

C12_SilenceStopsRecognition ==
  [][/\ lastOp' \in {"Enhanced:onresult", "Enhanced:onresult:handleSearch",
                     "Instant:onresult"} => silenceTimeout'.armed
     /\ (lastOp' = "silenceTimeout" /\ uvRec.phase = "active")
          => uvRec'.phase = "stopping"]_vars

(***************************************************************************)
(* Properties of EnhancedRealtimeVoiceSearch.                              *)
(***************************************************************************)

(* C6, as stated: persistent browser storage is left unchanged by every    *)
(* operation.                                                              *)
C6_StorageNeverWritten ==
  [][localStorage' = localStorage]_vars

(* C6, amended: persistent browser storage is left unchanged by every      *)
(* operation except handleApiKeySave, which stores the key typed in the    *)
(* settings panel under 'openai_api_key' and touches no other item.        *)
C6_StorageWrittenOnlyBySave ==
  [][localStorage' # localStorage =>
       /\ lastOp' = "handleApiKeySave"
       /\ localStorage' = [localStorage EXCEPT !["openai_api_key"] = <<apiKey>>]]_vars

C6_Witness ==
  /\ lastOp = "handleApiKeySave"
  /\ localStorage["openai_api_key"] = <<"sk-new">>

(* C10: the function_call_output item sent after the property search for   *)
(* the function call with call id c carries call_id = c and the search     *)
(* outcome as output, and is followed by a response.create message.        *)
C10_FunctionResultCarriesCallId ==
  \A i \in DOMAIN outbox :
    (outbox[i].item_type = "function_call_output" /\ outbox[i].answers.arguments # <<>>) =>
      /\ outbox[i].call_id = outbox[i].answers.call_id
      /\ outbox[i].output = SearchOutput(searchProperties(outbox[i].answers.arguments[1]))
      /\ i < Len(outbox)
      /\ outbox[i + 1].type = "response.create"

(* C11: when initialising the realtime service fails (the audio context    *)
(* cannot be created or resumed, or the WebSocket errors before opening),  *)
(* the state of the mounted component becomes 'error'.                     *)
C11_InitFailureShowsError ==
  [][\A s \in DOMAIN services' :
       (/\ rtLife' = "mounted"
        /\ \/ s \notin DOMAIN services /\ services'[s].ws = "none"
           \/ /\ s \in DOMAIN services
              /\ services[s].ws = "connecting"
              /\ services'[s].ws = "closed"
              /\ lastOp' = "ws.onerror")
       => rtState' = "error"]_vars

(***************************************************************************)
(* Properties of POST /api/voice/process.                                  *)
(***************************************************************************)

====
